---- MODULE Spec2Model ----
(***************************************************************************)
(* Model of scaling.py: calculate_scaling_factors with its nested          *)
(* mm_to_pixels, print_results, and the command-line entry point.          *)
(*                                                                         *)
(* Python evaluates every "/" and every product with a float operand in    *)
(* IEEE-754 binary64 with round-to-nearest-even.  The model keeps that     *)
(* arithmetic: a double is a record [s, m, e] with a 53-bit significand m  *)
(* and value s * m * 2^e; m is held as a little-endian sequence of 14-bit  *)
(* limbs so that no intermediate exceeds 32-bit integers.                  *)
(***************************************************************************)
EXTENDS Integers, Sequences, FiniteSets, TLC

(***************************************************************************)
(* The(S) is the element of a one-element set.  The({e : v \in {x}}) is e  *)
(* with v bound to the value of x, which is evaluated once.                *)
(***************************************************************************)
The(S) == CHOOSE r \in S : TRUE

(***************************************************************************)
(* Natural numbers as little-endian sequences of 14-bit limbs.  A product  *)
(* of two limbs is below 2^28, so a column of four such products plus a    *)
(* carry stays below 2^31.                                                 *)
(***************************************************************************)
Pow2Tab ==
    <<1, 2, 4, 8, 16, 32, 64, 128, 256, 512, 1024, 2048, 4096, 8192, 16384,
      32768, 65536, 131072, 262144, 524288, 1048576, 2097152, 4194304,
      8388608, 16777216, 33554432, 67108864, 134217728, 268435456,
      536870912, 1073741824>>
Pow2(n) == Pow2Tab[n + 1]
Pow10Tab == <<1, 10, 100, 1000, 10000>>

LimbBits == 14
Base == Pow2(LimbBits)
\* significand width of a Python float (binary64)
MantBits == 53
\* bits of the significand in its fourth limb
TopBits == MantBits - 3 * LimbBits

\* number of bits of n, 0 <= n < 2^31
IntBitLen(n) == Cardinality({k \in 1..31 : Pow2Tab[k] <= n})

Limb(a, i) == IF i <= Len(a) THEN a[i] ELSE 0

\* bit i (0 = least significant) of a
BBit(a, i) == (Limb(a, (i \div LimbBits) + 1) \div Pow2(i % LimbBits)) % 2

\* TRUE iff some bit below bit k of a is set
BLowNonZero(a, k) ==
    \/ \E j \in 1..(k \div LimbBits) : Limb(a, j) # 0
    \/ Limb(a, (k \div LimbBits) + 1) % Pow2(k % LimbBits) # 0

\* limb i of floor(a / 2^(LimbBits * w + k)), 0 <= k < LimbBits
BWindowLimb(a, w, k, i) ==
    (Limb(a, w + i) \div Pow2(k))
    + (Limb(a, w + i + 1) % Pow2(k)) * Pow2(LimbBits - k)

\* the low four limbs of floor(a / 2^n)
BWindow(a, n) ==
    <<BWindowLimb(a, n \div LimbBits, n % LimbBits, 1),
      BWindowLimb(a, n \div LimbBits, n % LimbBits, 2),
      BWindowLimb(a, n \div LimbBits, n % LimbBits, 3),
      BWindowLimb(a, n \div LimbBits, n % LimbBits, 4)>>

\* floor(a / 2^n) as an integer; it must be below 2^31
BShrInt(a, n) ==
    The({h[1] + Base * h[2] + Base * Base * h[3]
            + (IF h[4] = 0 THEN 0 ELSE Base * Base * Base * h[4])
         : h \in {BWindow(a, n)}})

\* -1, 0, 1 as a < b, a = b, a > b, for a and b of the same length n <= 5
BCmp(a, b) ==
    LET d5 == IF Len(a) >= 5 THEN a[5] - b[5] ELSE 0
        d4 == IF Len(a) >= 4 THEN a[4] - b[4] ELSE 0
        d3 == IF Len(a) >= 3 THEN a[3] - b[3] ELSE 0
        d2 == IF Len(a) >= 2 THEN a[2] - b[2] ELSE 0
        d1 == a[1] - b[1]
    IN  IF d5 # 0 THEN (IF d5 < 0 THEN -1 ELSE 1)
        ELSE IF d4 # 0 THEN (IF d4 < 0 THEN -1 ELSE 1)
        ELSE IF d3 # 0 THEN (IF d3 < 0 THEN -1 ELSE 1)
        ELSE IF d2 # 0 THEN (IF d2 < 0 THEN -1 ELSE 1)
        ELSE IF d1 # 0 THEN (IF d1 < 0 THEN -1 ELSE 1)
        ELSE 0

\* a * k as five limbs, for a of four limbs and 0 <= k < Base
BMulSmall(a, k) ==
    LET t1 == a[1] * k
        t2 == a[2] * k + t1 \div Base
        t3 == a[3] * k + t2 \div Base
        t4 == a[4] * k + t3 \div Base
    IN  <<t1 % Base, t2 % Base, t3 % Base, t4 % Base, t4 \div Base>>

\* the low four limbs of a - b, for a >= b of five limbs each
BSub(a, b) ==
    LET s1 == a[1] - b[1]
        s2 == a[2] - b[2] - (IF s1 < 0 THEN 1 ELSE 0)
        s3 == a[3] - b[3] - (IF s2 < 0 THEN 1 ELSE 0)
        s4 == a[4] - b[4] - (IF s3 < 0 THEN 1 ELSE 0)
    IN  <<s1 % Base, s2 % Base, s3 % Base, s4 % Base>>

\* a * b as eight limbs, for a and b of four limbs
BMul(a, b) ==
    LET c1 == a[1] * b[1]
        c2 == a[1] * b[2] + a[2] * b[1] + c1 \div Base
        c3 == a[1] * b[3] + a[2] * b[2] + a[3] * b[1] + c2 \div Base
        c4 == a[1] * b[4] + a[2] * b[3] + a[3] * b[2] + a[4] * b[1] + c3 \div Base
        c5 == a[2] * b[4] + a[3] * b[3] + a[4] * b[2] + c4 \div Base
        c6 == a[3] * b[4] + a[4] * b[3] + c5 \div Base
        c7 == a[4] * b[4] + c6 \div Base
    IN  <<c1 % Base, c2 % Base, c3 % Base, c4 % Base, c5 % Base, c6 % Base,
          c7 % Base, c7 \div Base>>

\* h + 1 for h of four limbs
BInc(h) ==
    IF h[1] + 1 < Base THEN <<h[1] + 1, h[2], h[3], h[4]>>
    ELSE IF h[2] + 1 < Base THEN <<0, h[2] + 1, h[3], h[4]>>
    ELSE IF h[3] + 1 < Base THEN <<0, 0, h[3] + 1, h[4]>>
    ELSE <<0, 0, 0, h[4] + 1>>

(***************************************************************************)
(* Python float (binary64, round-to-nearest, ties-to-even): [s, m, e] with *)
(* sign s (-1, 0, 1), m the 53-bit significand in four limbs (the top limb *)
(* holds its 11 high bits) and value s * m * 2^e.  Arithmetic is defined   *)
(* on positive values, the only ones the calculation receives once the     *)
(* entry point has validated its arguments, and exponents stay far from    *)
(* the overflow and subnormal ranges.                                      *)
(***************************************************************************)
FZero == [s |-> 0, m |-> <<0, 0, 0, 0>>, e |-> 0]

\* q * 2^e rounded to 53 bits, for q of n > 53 bits; sticky = the exact value
\* lies strictly above q * 2^e
FRoundBig(q, n, e, sticky) ==
    The({The({IF m1[4] = Pow2(TopBits)
              THEN [s |-> 1, m |-> <<0, 0, 0, Pow2(TopBits - 1)>>, e |-> e + n - MantBits + 1]
              ELSE [s |-> 1, m |-> m1, e |-> e + n - MantBits]
              : m1 \in {IF BBit(q, n - MantBits - 1) = 1
                           /\ (sticky \/ BLowNonZero(q, n - MantBits - 1) \/ hi[1] % 2 = 1)
                        THEN BInc(hi) ELSE hi}})
         : hi \in {BWindow(q, n - MantBits)}})

\* n * 2^sh as four limbs, for 0 < n < 2^31 of 53 - sh bits
FFromIntLimbs(n, sh) ==
    LET k == sh % LimbBits
        t1 == (n % Base) * Pow2(k)
        t2 == ((n \div Base) % Base) * Pow2(k) + t1 \div Base
        t3 == (n \div (Base * Base)) * Pow2(k) + t2 \div Base
    IN  IF sh \div LimbBits = 1 THEN <<0, t1 % Base, t2 % Base, t3 % Base>>
        ELSE IF sh \div LimbBits = 2 THEN <<0, 0, t1 % Base, t2 % Base>>
        ELSE <<0, 0, 0, t1 % Base>>

\* float(n) for an int n, |n| < 2^31 (exact)
FFromInt(n) ==
    IF n = 0 THEN FZero
    ELSE The({[s |-> IF n < 0 THEN -1 ELSE 1,
               m |-> FFromIntLimbs(IF n < 0 THEN -n ELSE n, sh),
               e |-> -sh]
              : sh \in {MantBits - IntBitLen(IF n < 0 THEN -n ELSE n)}})

\* x * y, for x, y > 0
FMul(x, y) ==
    The({IF xv.s # 1 \/ yv.s # 1 THEN FZero
         ELSE The({FRoundBig(q, 7 * LimbBits + IntBitLen(q[8]), xv.e + yv.e, FALSE)
                   : q \in {BMul(xv.m, yv.m)}})
         : xv \in {x}, yv \in {y}})

RECURSIVE FDivDigit(_, _, _)
\* <<g', r1 - g' * d>> for the largest digit g' <= g with g' * d <= r1
FDivDigit(r1, d, g) ==
    The({IF BCmp(t, r1) <= 0 THEN <<g, BSub(r1, t)>> ELSE FDivDigit(r1, d, g - 1)
         : t \in {BMulSmall(d, g)}})

\* one step of the long division of r * Base by d, for r < d (four limbs each)
\* and d's top limb >= Base / 2, when the estimate from the two top limbs is
\* at most 2 too large: <<quotient digit, remainder>>
FDivStep(r, d) ==
    The({FDivDigit(<<0, r[1], r[2], r[3], r[4]>>, d, IF est > Base - 1 THEN Base - 1 ELSE est)
         : est \in {(r[4] * Base + r[3]) \div d[4]}})

RECURSIVE FDivLoop(_, _, _, _)
\* n more digits of r / d in front of q: <<quotient limbs, remainder>>
FDivLoop(r, d, n, q) ==
    IF n = 0 THEN <<q, r>>
    ELSE The({FDivLoop(st[2], d, n - 1, <<st[1]>> \o q) : st \in {FDivStep(r, d)}})

\* n5 / d5 for significands aligned to 56 bits: the quotient to four limbs
\* below its leading bit, rounded; what remains is the sticky bit
FDivAligned(n5, d5, e) ==
    The({The({FRoundBig(qr[1] \o <<lead>>, 4 * LimbBits + lead, e, qr[2] # <<0, 0, 0, 0>>)
              : qr \in {FDivLoop(IF lead = 1 THEN BSub(n5, d5) ELSE SubSeq(n5, 1, 4),
                                 SubSeq(d5, 1, 4), 4, <<>>)}})
         : lead \in {IF BCmp(n5, d5) >= 0 THEN 1 ELSE 0}})

\* x / y, for x, y > 0
FDiv(x, y) ==
    The({IF xv.s # 1 \/ yv.s # 1 THEN FZero
         ELSE The({FDivAligned(n5, d5, xv.e - yv.e - 4 * LimbBits)
                   : n5 \in {BMulSmall(xv.m, Pow2(4 * LimbBits - MantBits))},
                     d5 \in {BMulSmall(yv.m, Pow2(4 * LimbBits - MantBits))}})
         : xv \in {x}, yv \in {y}})

\* -1, 0, 1 as x < y, x = y, x > y, for positive x, y
FCmp(x, y) ==
    The({IF xv.e < yv.e THEN -1
         ELSE IF xv.e > yv.e THEN 1
         ELSE BCmp(xv.m, yv.m)
         : xv \in {x}, yv \in {y}})

FLe(x, y) == FCmp(x, y) <= 0
FLt(x, y) == FCmp(x, y) < 0
FGt(x, y) == FCmp(x, y) > 0

\* Python min(a, b): b only if b < a
FMin(x, y) == The({IF FLt(yv, xv) THEN yv ELSE xv : xv \in {x}, yv \in {y}})

\* q * 2^e rounded to the nearest integer, ties to even, for e <= 0 and a
\* result below 2^31
BRoundInt(q, e) ==
    The({hi + (IF e < 0 /\ BBit(q, -e - 1) = 1 /\ (BLowNonZero(q, -e - 1) \/ hi % 2 = 1)
               THEN 1 ELSE 0)
         : hi \in {BShrInt(q, -e)}})

\* int(x): truncation toward zero, for 0 < x < 2^31
FInt(x) == The({BShrInt(xv.m, -xv.e) : xv \in {x}})

\* round(x), for 0 < x < 2^31
FRoundInt(x) == The({BRoundInt(xv.m, xv.e) : xv \in {x}})

\* the double nearest to 25.4, 0x1.9666666666666p+4
F25_4 == [s |-> 1, m |-> <<9830, 6553, 9830, 1625>>, e |-> -48]

\* x formatted with `digits` decimals ("%.nf", n <= 4), as the integer
\* x * 10^n rounded half-to-even on the exact value of x
FFormat(x, digits) ==
    The({The({BRoundInt(q, xv.e) : q \in {BMulSmall(xv.m, Pow10Tab[digits + 1])}})
         : xv \in {x}})

(***************************************************************************)
(* calculate_scaling_factors                                               *)
(***************************************************************************)
\* A-series paper dimensions in mm (width x height), in dictionary order
PaperSizes == <<"A0", "A1", "A2", "A3">>
a_series_mm ==
    [ps \in {"A0", "A1", "A2", "A3"} |->
        CASE ps = "A0" -> <<841, 1189>>
          [] ps = "A1" -> <<594, 841>>
          [] ps = "A2" -> <<420, 594>>
          [] ps = "A3" -> <<297, 420>>]

standard_scales ==
    <<100, 200, 250, 500, 1000, 2000, 2500, 5000, 10000, 25000, 50000,
      100000, 250000, 500000>>

\* the string f'1:{n}': a dictionary key, and the actual_scale label
ScaleKey(n) == <<"1:", n>>

\* mm_to_pixels rounding to the nearest integer instead of truncating
mm_to_pixels_rounding(mm, dpi) ==
    The({FRoundInt(FMul(inches, FFromInt(dpi))) : inches \in {FDiv(FFromInt(mm), F25_4)}})

mm_to_pixels(mm, dpi) ==
    The({FInt(FMul(inches, FFromInt(dpi))) : inches \in {FDiv(FFromInt(mm), F25_4)}})

\* Orientation with `>=` for `>`: a tie goes to landscape
OrientationTieLandscape(w_mm, h_mm, w_t, h_t, effective_w_t, effective_h_t, max_scale_portrait, max_scale_landscape) ==
    IF ~FLt(max_scale_landscape, max_scale_portrait)
    THEN [orientation |-> "landscape",
          used_w_t |-> h_t, used_h_t |-> w_t,
          effective_used_w_t |-> effective_h_t,
          effective_used_h_t |-> effective_w_t,
          max_scale_factor |-> max_scale_landscape,
          oriented_mm |-> <<h_mm, w_mm>>,
          w_t |-> w_t, h_t |-> h_t,
          max_scale_portrait |-> max_scale_portrait,
          max_scale_landscape |-> max_scale_landscape]
    ELSE [orientation |-> "portrait",
          used_w_t |-> w_t, used_h_t |-> h_t,
          effective_used_w_t |-> effective_w_t,
          effective_used_h_t |-> effective_h_t,
          max_scale_factor |-> max_scale_portrait,
          oriented_mm |-> <<w_mm, h_mm>>,
          w_t |-> w_t, h_t |-> h_t,
          max_scale_portrait |-> max_scale_portrait,
          max_scale_landscape |-> max_scale_landscape]

\* Orientation whose landscape branch keeps the paper's pixel dimensions unswapped
OrientationNoSwap(w_mm, h_mm, w_t, h_t, effective_w_t, effective_h_t, max_scale_portrait, max_scale_landscape) ==
    [orientation |->
        IF FGt(max_scale_landscape, max_scale_portrait) THEN "landscape" ELSE "portrait",
     used_w_t |-> w_t, used_h_t |-> h_t,
     effective_used_w_t |-> effective_w_t,
     effective_used_h_t |-> effective_h_t,
     max_scale_factor |->
        IF FGt(max_scale_landscape, max_scale_portrait)
        THEN max_scale_landscape ELSE max_scale_portrait,
     oriented_mm |->
        IF FGt(max_scale_landscape, max_scale_portrait)
        THEN <<h_mm, w_mm>> ELSE <<w_mm, h_mm>>,
     w_t |-> w_t, h_t |-> h_t,
     max_scale_portrait |-> max_scale_portrait,
     max_scale_landscape |-> max_scale_landscape]

\* lines 55-67: the orientation chosen for one paper size, and the locals it sets
Orientation(w_mm, h_mm, w_t, h_t, effective_w_t, effective_h_t, max_scale_portrait, max_scale_landscape) ==
    IF FGt(max_scale_landscape, max_scale_portrait)
    THEN [orientation |-> "landscape",
          used_w_t |-> h_t, used_h_t |-> w_t,
          effective_used_w_t |-> effective_h_t,
          effective_used_h_t |-> effective_w_t,
          max_scale_factor |-> max_scale_landscape,
          oriented_mm |-> <<h_mm, w_mm>>,
          w_t |-> w_t, h_t |-> h_t,
          max_scale_portrait |-> max_scale_portrait,
          max_scale_landscape |-> max_scale_landscape]
    ELSE [orientation |-> "portrait",
          used_w_t |-> w_t, used_h_t |-> h_t,
          effective_used_w_t |-> effective_w_t,
          effective_used_h_t |-> effective_h_t,
          max_scale_factor |-> max_scale_portrait,
          oriented_mm |-> <<w_mm, h_mm>>,
          w_t |-> w_t, h_t |-> h_t,
          max_scale_portrait |-> max_scale_portrait,
          max_scale_landscape |-> max_scale_landscape]

\* lines 51 and 53
MaxScale(effective_a, a0, effective_b, b0) ==
    FMin(FDiv(effective_a, FFromInt(a0)), FDiv(effective_b, FFromInt(b0)))

\* lines 47-48
Effective(t, max_coverage) == FMul(FFromInt(t), FDiv(max_coverage, FFromInt(100)))

\* lines 47-67, with the paper's pixel dimensions known
PaperLocalsPx(w0, h0, max_coverage, w_mm, h_mm, w_t, h_t) ==
    The({The({Orientation(w_mm, h_mm, w_t, h_t, effective_w_t, effective_h_t,
                          max_scale_portrait, max_scale_landscape)
              : max_scale_portrait \in {MaxScale(effective_w_t, w0, effective_h_t, h0)},
                max_scale_landscape \in {MaxScale(effective_h_t, w0, effective_w_t, h0)}})
         : effective_w_t \in {Effective(w_t, max_coverage)},
           effective_h_t \in {Effective(h_t, max_coverage)}})

\* lines 41-67: the locals set for one paper size
PaperLocals(w0, h0, dpi, max_coverage, paper_size) ==
    The({PaperLocalsPx(w0, h0, max_coverage,
                       a_series_mm[paper_size][1], a_series_mm[paper_size][2], w_t, h_t)
         : w_t \in {mm_to_pixels(a_series_mm[paper_size][1], dpi)},
           h_t \in {mm_to_pixels(a_series_mm[paper_size][2], dpi)}})

\* line 78
RequiredScaleFactor(dpi, original_pixels_per_meter, scale_ratio) ==
    FDiv(FMul(FDiv(FFromInt(dpi), F25_4), FFromInt(1000)),
         FMul(original_pixels_per_meter, FFromInt(scale_ratio)))

\* ChooseScale with `<` for `<=`: the boundary counts as not achieved
ChooseScaleStrict(required_scale_factor, max_scale_factor) ==
    IF FLt(required_scale_factor, max_scale_factor)
    THEN <<required_scale_factor, TRUE>>
    ELSE <<max_scale_factor, FALSE>>

\* ChooseScale with the comparison inverted
ChooseScaleInverted(required_scale_factor, max_scale_factor) ==
    IF FLe(max_scale_factor, required_scale_factor)
    THEN <<required_scale_factor, TRUE>>
    ELSE <<max_scale_factor, FALSE>>

\* lines 81-88: <<final_scale_factor, achieves_target_scale>>
ChooseScale(required_scale_factor, max_scale_factor) ==
    IF FLe(required_scale_factor, max_scale_factor)
    THEN <<required_scale_factor, TRUE>>
    ELSE <<max_scale_factor, FALSE>>

\* lines 96-100
ActualScaleRatio(dpi, original_pixels_per_meter, final_scale_factor) ==
    The({FMul(FDiv(FDiv(FFromInt(dpi), F25_4), final_pixels_per_meter), FFromInt(1000))
         : final_pixels_per_meter \in {FMul(original_pixels_per_meter, final_scale_factor)}})

\* ActualScaleLabel with int() alone: truncation instead of rounding
ActualScaleLabelTruncating(actual_scale_ratio) ==
    IF actual_scale_ratio.s = 1 THEN ScaleKey(FInt(actual_scale_ratio))
    ELSE <<"1:", "ERROR">>

\* line 112
ActualScaleLabel(actual_scale_ratio) ==
    IF actual_scale_ratio.s = 1 THEN ScaleKey(FRoundInt(actual_scale_ratio))
    ELSE <<"1:", "ERROR">>

\* lines 103-104
Coverage(final_dim, used_t) == FMul(FDiv(final_dim, FFromInt(used_t)), FFromInt(100))

\* lines 91-117, with the scale factor chosen: the locals and the entry stored
ScaleLocalsChosen(w0, h0, dpi, original_pixels_per_meter, pl, required_scale_factor, final_scale_factor, achieves_target_scale) ==
    The({[required_scale_factor |-> required_scale_factor,
          final_w |-> final_w,
          final_h |-> final_h,
          actual_scale_ratio |-> actual_scale_ratio,
          entry |->
            [total_scaling_factor |-> final_scale_factor,
             final_dimensions_px |-> <<FInt(final_w), FInt(final_h)>>,
             paper_dimensions_px |-> <<pl.used_w_t, pl.used_h_t>>,
             paper_dimensions_mm |-> pl.oriented_mm,
             paper_orientation |-> pl.orientation,
             actual_scale |-> ActualScaleLabel(actual_scale_ratio),
             coverage_x_percent |-> Coverage(final_w, pl.used_w_t),
             coverage_y_percent |-> Coverage(final_h, pl.used_h_t),
             fits_on_paper |-> TRUE,
             achieves_target_scale |-> achieves_target_scale]]
         : final_w \in {FMul(FFromInt(w0), final_scale_factor)},
           final_h \in {FMul(FFromInt(h0), final_scale_factor)},
           actual_scale_ratio \in
               {ActualScaleRatio(dpi, original_pixels_per_meter, final_scale_factor)}})

\* lines 78-117: one pass of the scale loop, pl being the paper's locals
ScaleLocals(w0, h0, dpi, original_pixels_per_meter, pl, scale_ratio) ==
    The({The({ScaleLocalsChosen(w0, h0, dpi, original_pixels_per_meter, pl,
                                required_scale_factor, chosen[1], chosen[2])
              : chosen \in {ChooseScale(required_scale_factor, pl.max_scale_factor)}})
         : required_scale_factor \in
               {RequiredScaleFactor(dpi, original_pixels_per_meter, scale_ratio)}})

(***************************************************************************)
(* print_results                                                           *)
(***************************************************************************)
\* lines 145-150 and 166-171: the coverage pair, smaller value first, each
\* value in tenths of a percent as "%.1f" prints it
CoverageDisplay(data) ==
    IF FLe(data.coverage_x_percent, data.coverage_y_percent)
    THEN <<FFormat(data.coverage_x_percent, 1), FFormat(data.coverage_y_percent, 1)>>
    ELSE <<FFormat(data.coverage_y_percent, 1), FFormat(data.coverage_x_percent, 1)>>

\* the keys of a dictionary in insertion order, the keys being inserted in
\* the order of the sequence `order`
RECURSIVE Keys(_, _)
Keys(d, order) ==
    IF order = <<>> THEN <<>>
    ELSE (IF Head(order) \in DOMAIN d THEN <<Head(order)>> ELSE <<>>)
         \o Keys(d, Tail(order))

\* the paper sizes of a result table that have entries, and a paper's scale keys
PapersOf(table) == SelectSeq(Keys(table, PaperSizes), LAMBDA ps : DOMAIN table[ps] # {})
ScaleKeysOf(scales) ==
    Keys(scales, [i \in 1..Len(standard_scales) |-> ScaleKey(standard_scales[i])])

\* line 154
ResultRow(scale_name, data) ==
    <<scale_name, FFormat(data.total_scaling_factor, 4), data.final_dimensions_px,
      data.actual_scale, CoverageDisplay(data),
      IF data.achieves_target_scale THEN "YES" ELSE "NO">>

\* lines 130-154: the lines printed for one paper size
PaperBlock(paper_size, scales, verbose) ==
    LET first_entry == scales[ScaleKeysOf(scales)[1]]
    IN  <<IF verbose
          THEN <<paper_size, first_entry.paper_orientation,
                 first_entry.paper_dimensions_mm, first_entry.paper_dimensions_px>>
          ELSE <<paper_size, first_entry.paper_orientation>>,
          <<"-", 70>>,
          <<"Target Scale", "Scaling Factor", "Final Size (px)", "Actual Scale",
            "Coverage %", "Exact Scale?">>,
          <<"-", 80>>>>
        \o [i \in 1..Len(ScaleKeysOf(scales)) |->
                ResultRow(ScaleKeysOf(scales)[i], scales[ScaleKeysOf(scales)[i]])]

RECURSIVE PaperBlocks(_, _, _)
PaperBlocks(table, papers, verbose) ==
    IF papers = <<>> THEN <<>>
    ELSE PaperBlock(Head(papers), table[Head(papers)], verbose)
         \o PaperBlocks(table, Tail(papers), verbose)

\* lines 157-173: the example, taken from the first entry of the first
\* paper size that has one
ExampleBlock(table) ==
    IF DOMAIN table = {} THEN <<>>
    ELSE <<<<"=", 80>>>>
         \o (IF PapersOf(table) = <<>> THEN <<>>
             ELSE LET paper_size == PapersOf(table)[1]
                      scale_name == ScaleKeysOf(table[paper_size])[1]
                      data == table[paper_size][scale_name]
                  IN  <<<<"EXAMPLE", paper_size, scale_name>>,
                        <<"Apply scaling factor", FFormat(data.total_scaling_factor, 4)>>,
                        <<"Final image size", data.final_dimensions_px>>,
                        <<"Paper coverage", CoverageDisplay(data)>>>>)

\* lines 121-173: everything print_results writes to standard output
print_results(table, verbose) ==
    (IF verbose THEN <<>> ELSE <<<<"=", 80>>>>)
    \o PaperBlocks(table, PapersOf(table), verbose)
    \o ExampleBlock(table)

(***************************************************************************)
(* Inputs.  float("59.3852") and float("14846.3") are the doubles written  *)
(* out below; at 150 dpi with a 1 x 1 image the first puts the required    *)
(* factor for 1:100 on A1 exactly at the largest factor that fits, and the *)
(* second puts the required factor for 1:25000 on A1 one step above it.    *)
(***************************************************************************)
NumMeters == 4
MaxDpi == 400

MetersList ==
    <<FFromInt(1),
      FFromInt(50),
      [s |-> 1, m |-> <<13736, 12084, 5347, 1900>>, e |-> -47],
      [s |-> 1, m |-> <<9830, 6553, 12902, 1855>>, e |-> -39],
      FFromInt(2)>>

Widths == {1, 5, 2500}
Heights == {1, 5, 1800}
PixelCounts == {1}
Meters == {MetersList[i] : i \in 1..NumMeters}
Dpis == {150, 300}
Coverages == {FFromInt(100), FFromInt(80)}

\* every A-series dimension
PaperMms == UNION {{a_series_mm[ps][1], a_series_mm[ps][2]} : ps \in DOMAIN a_series_mm}

\* Python's None, and a variable not yet bound
None == <<>>
Unset == <<>>

\* command lines: valid and invalid values of every validated argument, a
\* paper filter, and a scale filter that is absent, zero, a standard
\* denominator, or an integer that is no standard denominator
CliWidths == {0, 1}
CliHeights == {-1, 5}
CliPixels == {0, 1}
CliMeters == {FZero, FFromInt(-1), FFromInt(50)}
CliDpis == {0, 150}
CliCoverages == {FZero, FFromInt(80), FFromInt(100), FFromInt(150)}
CliPapers == {None, <<"A0">>, <<"A3">>}
CliScales == {None, <<0>>, <<100>>, <<300>>}

VARIABLES
    pc,                         \* position in the program
    args,                       \* argparse namespace (Unset for a direct call)
    w0, h0, p, m, dpi, max_coverage,    \* parameters of calculate_scaling_factors
    original_pixels_per_meter,
    paper_i, scale_i,           \* papers / scales already taken by the two loops
    pl,                         \* locals set per paper (lines 43-67)
    sl,                         \* locals set per scale (lines 78-104)
    results,                    \* calculate_scaling_factors: results; main: results
    mm, px,                     \* mm_to_pixels: parameter and return value
    stdout, stderr,             \* lines written so far
    exit_code,                  \* <<status>> once the process has ended
    print_results_calls         \* the tables print_results was called with

vars ==
    <<pc, args, w0, h0, p, m, dpi, max_coverage, original_pixels_per_meter,
      paper_i, scale_i, pl, sl, results, mm, px, stdout, stderr, exit_code,
      print_results_calls>>

params == <<w0, h0, p, m, dpi, max_coverage>>
ioVars == <<stdout, stderr, exit_code, print_results_calls>>

EmptyDict == [x \in {} |-> 0]

\* d with d[k] = v added or replaced
DictSet(d, k, v) == [x \in DOMAIN d \cup {k} |-> IF x = k THEN v ELSE d[x]]

CurrentPaper == PaperSizes[paper_i]

(***************************************************************************)
(* calculate_scaling_factors as a sequence of steps                        *)
(***************************************************************************)
\* lines 37-39
Enter ==
    /\ pc = "enter"
    /\ original_pixels_per_meter' = FDiv(FFromInt(p), m)
    /\ results' = EmptyDict
    /\ paper_i' = 0
    /\ pc' = "paper_loop"
    /\ UNCHANGED <<args, params, scale_i, pl, sl, mm, px, ioVars>>

\* lines 41-69: the next paper size
PaperStep ==
    /\ pc = "paper_loop"
    /\ paper_i < Len(PaperSizes)
    /\ paper_i' = paper_i + 1
    /\ pl' = PaperLocals(w0, h0, dpi, max_coverage, PaperSizes[paper_i + 1])
    /\ results' = DictSet(results, PaperSizes[paper_i + 1], EmptyDict)
    /\ scale_i' = 0
    /\ pc' = "scale_loop"
    /\ UNCHANGED <<args, params, original_pixels_per_meter, sl, mm, px, ioVars>>

\* lines 71-117: the next standard scale for the current paper
ScaleStep ==
    /\ pc = "scale_loop"
    /\ scale_i < Len(standard_scales)
    /\ \E loc \in {ScaleLocals(w0, h0, dpi, original_pixels_per_meter, pl,
                               standard_scales[scale_i + 1])} :
           /\ sl' = [required_scale_factor |-> loc.required_scale_factor,
                     final_w |-> loc.final_w,
                     final_h |-> loc.final_h,
                     actual_scale_ratio |-> loc.actual_scale_ratio]
           /\ results' = DictSet(results, CurrentPaper,
                                 DictSet(results[CurrentPaper],
                                         ScaleKey(standard_scales[scale_i + 1]),
                                         loc.entry))
    /\ scale_i' = scale_i + 1
    /\ pc' = IF scale_i + 1 = Len(standard_scales) THEN "paper_loop" ELSE "scale_loop"
    /\ UNCHANGED <<args, params, original_pixels_per_meter, paper_i, pl, mm, px, ioVars>>

\* line 119; the command-line entry point goes on at line 243
Return ==
    /\ pc = "paper_loop"
    /\ paper_i = Len(PaperSizes)
    /\ pc' = IF DOMAIN args = {} THEN "returned" ELSE "filter"
    /\ UNCHANGED <<args, params, original_pixels_per_meter, paper_i, scale_i, pl, sl,
                   results, mm, px, ioVars>>

\* a direct call with valid arguments
Init ==
    /\ pc = "enter"
    /\ args = Unset
    /\ w0 \in Widths
    /\ h0 \in Heights
    /\ p \in PixelCounts
    /\ m \in Meters
    /\ dpi \in Dpis
    /\ max_coverage \in Coverages
    /\ original_pixels_per_meter = Unset
    /\ paper_i = 0
    /\ scale_i = 0
    /\ pl = Unset
    /\ sl = Unset
    /\ results = EmptyDict
    /\ mm = Unset
    /\ px = Unset
    /\ stdout = <<>>
    /\ stderr = <<>>
    /\ exit_code = Unset
    /\ print_results_calls = <<>>

Next == Enter \/ PaperStep \/ ScaleStep \/ Return

Spec == Init /\ [][Next]_vars

(***************************************************************************)
(* mm_to_pixels on its own, for every A-series dimension and dpi           *)
(***************************************************************************)
\* lines 32-34
MmToPixels ==
    /\ pc = "mm_to_pixels"
    /\ px' = mm_to_pixels(mm, dpi)
    /\ pc' = "returned"
    /\ UNCHANGED <<args, params, original_pixels_per_meter, paper_i, scale_i, pl, sl,
                   results, mm, ioVars>>

InitPx ==
    /\ pc = "mm_to_pixels"
    /\ mm \in PaperMms
    /\ dpi \in 1..MaxDpi
    /\ px = Unset
    /\ args = Unset
    /\ w0 = Unset
    /\ h0 = Unset
    /\ p = Unset
    /\ m = Unset
    /\ max_coverage = Unset
    /\ original_pixels_per_meter = Unset
    /\ paper_i = 0
    /\ scale_i = 0
    /\ pl = Unset
    /\ sl = Unset
    /\ results = EmptyDict
    /\ stdout = <<>>
    /\ stderr = <<>>
    /\ exit_code = Unset
    /\ print_results_calls = <<>>

NextPx == MmToPixels

SpecPx == InitPx /\ [][NextPx]_vars

(***************************************************************************)
(* The command-line entry point, lines 207-258                             *)
(***************************************************************************)
NoError == ""

\* lines 210-224: the message of the first check that fails
ValidationError(a) ==
    IF a.width <= 0 \/ a.height <= 0
    THEN "Error: Width and height must be positive integers"
    ELSE IF a.pixels <= 0 \/ a.meters.s <= 0
    THEN "Error: Pixels and meters must be positive numbers"
    ELSE IF a.dpi <= 0
    THEN "Error: DPI must be a positive integer"
    ELSE IF a.max_coverage.s <= 0 \/ FGt(a.max_coverage, FFromInt(100))
    THEN "Error: Maximum coverage must be between 0 and 100 percent"
    ELSE NoError

\* `if args.paper:` and `if args.scale:`
PaperGiven(a) == a.paper # None
ScaleGiven(a) == a.scale # None /\ a.scale[1] # 0

\* lines 209-224
Validate ==
    /\ pc = "validate"
    /\ IF ValidationError(args) # NoError
       THEN /\ stderr' = Append(stderr, <<ValidationError(args)>>)
            /\ exit_code' = <<1>>
            /\ pc' = "exited"
       ELSE /\ pc' = "header"
            /\ UNCHANGED <<stderr, exit_code>>
    /\ UNCHANGED <<args, params, original_pixels_per_meter, paper_i, scale_i, pl, sl,
                   results, mm, px, stdout, print_results_calls>>

\* lines 226-238
Header ==
    /\ pc = "header"
    /\ stdout' = stdout
          \o <<<<"Terrain Image Scaling Calculator">>,
               <<"=", 40>>,
               <<"Input parameters:">>,
               <<"  Image size", args.width, args.height>>,
               <<"  Original scale", args.pixels, args.meters,
                 FFormat(FDiv(FFromInt(args.pixels), args.meters), 2)>>,
               <<"  Target DPI", args.dpi>>>>
          \o (IF FLt(args.max_coverage, FFromInt(100))
              THEN <<<<"  Maximum coverage", args.max_coverage>>>> ELSE <<>>)
          \o (IF PaperGiven(args) THEN <<<<"  Paper filter", args.paper[1]>>>> ELSE <<>>)
          \o (IF ScaleGiven(args) THEN <<<<"  Scale filter", args.scale[1]>>>> ELSE <<>>)
    /\ pc' = "call"
    /\ UNCHANGED <<args, params, original_pixels_per_meter, paper_i, scale_i, pl, sl,
                   results, mm, px, stderr, exit_code, print_results_calls>>

\* line 240: the call
Call ==
    /\ pc = "call"
    /\ w0' = args.width
    /\ h0' = args.height
    /\ p' = args.pixels
    /\ m' = args.meters
    /\ dpi' = args.dpi
    /\ max_coverage' = args.max_coverage
    /\ pc' = "enter"
    /\ UNCHANGED <<args, original_pixels_per_meter, paper_i, scale_i, pl, sl, results,
                   mm, px, ioVars>>

\* lines 243-244
FilterPaper(table, a) ==
    IF PaperGiven(a) THEN [ps \in {a.paper[1]} |-> table[ps]] ELSE table

\* lines 246-252
FilterScale(table, a) ==
    IF ScaleGiven(a)
    THEN [ps \in {x \in DOMAIN table : ScaleKey(a.scale[1]) \in DOMAIN table[x]} |->
             [k \in {ScaleKey(a.scale[1])} |-> table[ps][k]]]
    ELSE table

\* lines 243-252
Filter ==
    /\ pc = "filter"
    /\ results' = FilterScale(FilterPaper(results, args), args)
    /\ pc' = "check"
    /\ UNCHANGED <<args, params, original_pixels_per_meter, paper_i, scale_i, pl, sl,
                   mm, px, ioVars>>

\* line 254
NothingFound(table) == DOMAIN table = {} \/ \A ps \in DOMAIN table : DOMAIN table[ps] = {}

\* lines 254-256
NoResults ==
    /\ pc = "check"
    /\ NothingFound(results)
    /\ stderr' = Append(stderr, <<"No results found for the specified filters.">>)
    /\ exit_code' = <<1>>
    /\ pc' = "exited"
    /\ UNCHANGED <<args, params, original_pixels_per_meter, paper_i, scale_i, pl, sl,
                   results, mm, px, stdout, print_results_calls>>

\* line 258, and the end of the script
PrintResults ==
    /\ pc = "check"
    /\ ~NothingFound(results)
    /\ print_results_calls' = Append(print_results_calls, results)
    /\ stdout' = stdout \o print_results(results, args.verbose)
    /\ exit_code' = <<0>>
    /\ pc' = "exited"
    /\ UNCHANGED <<args, params, original_pixels_per_meter, paper_i, scale_i, pl, sl,
                   results, mm, px, stderr>>

\* the script started with any parsed command line
InitCli ==
    /\ pc = "validate"
    /\ args \in [width : CliWidths, height : CliHeights, pixels : CliPixels,
                 meters : CliMeters, dpi : CliDpis, max_coverage : CliCoverages,
                 paper : CliPapers, scale : CliScales, verbose : BOOLEAN]
    /\ w0 = Unset
    /\ h0 = Unset
    /\ p = Unset
    /\ m = Unset
    /\ dpi = Unset
    /\ max_coverage = Unset
    /\ original_pixels_per_meter = Unset
    /\ paper_i = 0
    /\ scale_i = 0
    /\ pl = Unset
    /\ sl = Unset
    /\ results = EmptyDict
    /\ mm = Unset
    /\ px = Unset
    /\ stdout = <<>>
    /\ stderr = <<>>
    /\ exit_code = Unset
    /\ print_results_calls = <<>>

NextCli ==
    \/ Validate \/ Header \/ Call
    \/ Enter \/ PaperStep \/ ScaleStep \/ Return
    \/ Filter \/ NoResults \/ PrintResults

SpecCli == InitCli /\ [][NextCli]_vars


(***************************************************************************)
(* Properties.  Under Spec, scale_i > 0 says that the scale loop has just  *)
(* stored the entry for CurrentPaper and TargetScale, with sl and pl the   *)
(* locals it was computed from.                                            *)
(***************************************************************************)
EntryStored == scale_i > 0
TargetScale == standard_scales[scale_i]
LastEntry == results[CurrentPaper][ScaleKey(TargetScale)]
EarlierEntry(j) == results[CurrentPaper][ScaleKey(standard_scales[j])]

\* the entry calculate_scaling_factors(h0, w0, ...) stores for the same paper and scale
SwappedEntry ==
    ScaleLocals(h0, w0, dpi, original_pixels_per_meter,
                PaperLocals(h0, w0, dpi, max_coverage, CurrentPaper), TargetScale).entry

\* C1: for every (paper size, target scale) pair, if required_scale_factor <=
\* max_scale_factor of the chosen orientation, equality included, then
\* total_scaling_factor is required_scale_factor and achieves_target_scale is
\* true; otherwise total_scaling_factor is max_scale_factor and
\* achieves_target_scale is false.
C1_FeasibilityDecision ==
    EntryStored =>
        IF FCmp(sl.required_scale_factor, pl.max_scale_factor) <= 0
        THEN /\ LastEntry.total_scaling_factor = sl.required_scale_factor
             /\ LastEntry.achieves_target_scale = TRUE
        ELSE /\ LastEntry.total_scaling_factor = pl.max_scale_factor
             /\ LastEntry.achieves_target_scale = FALSE

\* C1 witness: the boundary, required_scale_factor == max_scale_factor, with
\* the target scale marked as achieved
C1_Witness ==
    /\ EntryStored
    /\ sl.required_scale_factor = pl.max_scale_factor
    /\ LastEntry.achieves_target_scale

\* C2 as stated: the final image dimensions never exceed the effective paper
\* area of the chosen orientation, final_w <= used width * max_coverage/100
\* and final_h <= used height * max_coverage/100.
C2_FitsEffectiveArea ==
    EntryStored =>
        /\ FLe(sl.final_w, Effective(pl.used_w_t, max_coverage))
        /\ FLe(sl.final_h, Effective(pl.used_h_t, max_coverage))

\* C3: the chosen orientation is the one whose maximum scale factor
\* min(effective width / image width, effective height / image height) is
\* larger, portrait when the two are equal, and the reported pixel and mm
\* dimensions and max_scale_factor are those of the chosen orientation.
C3_OrientationChoice ==
    paper_i > 0 =>
        \A chosen \in {MaxScale(pl.effective_used_w_t, w0, pl.effective_used_h_t, h0)},
           other \in {MaxScale(pl.effective_used_h_t, w0, pl.effective_used_w_t, h0)} :
            /\ pl.max_scale_factor = chosen
            /\ FCmp(other, chosen) <= 0
            /\ FCmp(other, chosen) = 0 => pl.orientation = "portrait"
            /\ pl.orientation \in {"portrait", "landscape"}
            /\ pl.orientation = "portrait" =>
                  /\ <<pl.used_w_t, pl.used_h_t>> = <<pl.w_t, pl.h_t>>
                  /\ pl.oriented_mm = a_series_mm[CurrentPaper]
            /\ pl.orientation = "landscape" =>
                  /\ <<pl.used_w_t, pl.used_h_t>> = <<pl.h_t, pl.w_t>>
                  /\ pl.oriented_mm = <<a_series_mm[CurrentPaper][2],
                                        a_series_mm[CurrentPaper][1]>>
            /\ pl.effective_used_w_t = Effective(pl.used_w_t, max_coverage)
            /\ pl.effective_used_h_t = Effective(pl.used_h_t, max_coverage)
            /\ EntryStored =>
                  /\ LastEntry.paper_dimensions_px = <<pl.used_w_t, pl.used_h_t>>
                  /\ LastEntry.paper_dimensions_mm = pl.oriented_mm
                  /\ LastEntry.paper_orientation = pl.orientation

\* C3 witness: a tie between the two orientations, resolved to portrait, with
\* an entry reporting it
C3_Witness ==
    /\ paper_i > 0
    /\ EntryStored
    /\ pl.max_scale_landscape = pl.max_scale_portrait
    /\ LastEntry.paper_orientation = "portrait"

\* C4 as stated: the paper pixel dimension is mm / 25.4 * dpi rounded to the
\* nearest integer.
C4_RoundsToNearest ==
    pc = "returned" => px = FRoundInt(FMul(FDiv(FFromInt(mm), F25_4), FFromInt(dpi)))

\* C4, amended: the paper pixel dimension is mm / 25.4 * dpi truncated toward
\* zero: the largest integer not above mm * dpi / 25.4.
C4_Truncates ==
    pc = "returned" => px = (mm * dpi * 10) \div 254

\* C4 witness: 594 mm at 150 dpi is 3507.87 px, reported as 3507
C4_Witness ==
    /\ pc = "returned"
    /\ mm = 594
    /\ dpi = 150
    /\ px = 3507

\* C5 as stated: when achieves_target_scale is true, the actual scale ratio
\* computed from the final scale factor equals S, and the label is '1:S'.
C5_RoundTripExact ==
    (EntryStored /\ LastEntry.achieves_target_scale) =>
        /\ sl.actual_scale_ratio = FFromInt(TargetScale)
        /\ LastEntry.actual_scale = ScaleKey(TargetScale)

\* C5, amended: when achieves_target_scale is true, the actual scale ratio
\* rounds to S, so the reported actual_scale label is '1:S'.
C5_RoundTripRounded ==
    (EntryStored /\ LastEntry.achieves_target_scale) =>
        /\ FRoundInt(sl.actual_scale_ratio) = TargetScale
        /\ LastEntry.actual_scale = ScaleKey(TargetScale)

\* C5 witness: an achieved target scale whose recomputed ratio is not S
\* itself, reported as '1:S'
C5_Witness ==
    /\ EntryStored
    /\ LastEntry.achieves_target_scale
    /\ sl.actual_scale_ratio # FFromInt(TargetScale)
    /\ LastEntry.actual_scale = ScaleKey(TargetScale)

\* C6 as stated: with the image's width and height swapped, the entry has the
\* same total_scaling_factor and achieves_target_scale, its coverage pair is
\* the swapped pair, and the coverage print_results shows is identical.
C6_SwapSymmetry ==
    EntryStored =>
        \A swapped \in {SwappedEntry} :
            /\ swapped.total_scaling_factor = LastEntry.total_scaling_factor
            /\ swapped.achieves_target_scale = LastEntry.achieves_target_scale
            /\ <<swapped.coverage_x_percent, swapped.coverage_y_percent>>
                  = <<LastEntry.coverage_y_percent, LastEntry.coverage_x_percent>>
            /\ CoverageDisplay(swapped) = CoverageDisplay(LastEntry)

\* C6, amended: with the image's width and height swapped, the entry has the
\* same total_scaling_factor and achieves_target_scale and print_results
\* shows the same coverage; its coverage pair is the swapped pair when the
\* image is not square, and the same pair when it is.
C6_SwapSymmetryNonSquare ==
    EntryStored =>
        \A swapped \in {SwappedEntry} :
            /\ swapped.total_scaling_factor = LastEntry.total_scaling_factor
            /\ swapped.achieves_target_scale = LastEntry.achieves_target_scale
            /\ w0 # h0 =>
                  <<swapped.coverage_x_percent, swapped.coverage_y_percent>>
                     = <<LastEntry.coverage_y_percent, LastEntry.coverage_x_percent>>
            /\ w0 = h0 => swapped = LastEntry
            /\ CoverageDisplay(swapped) = CoverageDisplay(LastEntry)

\* C6 witness: a non-square image placed in landscape and clamped, so that
\* the two coverage percentages differ
C6_Witness ==
    /\ EntryStored
    /\ w0 # h0
    /\ LastEntry.paper_orientation = "landscape"
    /\ ~LastEntry.achieves_target_scale
    /\ LastEntry.coverage_x_percent # LastEntry.coverage_y_percent

\* C7 as stated: no run of the command-line entry point both writes to
\* standard output and ends with an error exit.
C7_NoOutputBeforeError ==
    exit_code = <<1>> => stdout = <<>>

\* the validation failures C8 lists
InvalidInput(a) ==
    \/ a.width <= 0
    \/ a.height <= 0
    \/ a.pixels <= 0
    \/ a.meters.s <= 0
    \/ a.dpi <= 0
    \/ a.max_coverage.s <= 0
    \/ FCmp(a.max_coverage, FFromInt(100)) > 0

\* a requested filter that matches no entry of the computed table: --paper
\* takes only the four paper sizes, so this is a requested scale that is no
\* standard denominator
FilterMatchesNothing(a) ==
    a.scale # None /\ \A i \in 1..Len(standard_scales) : a.scale[1] # standard_scales[i]

\* the table restricted to the requested paper and the requested scale
IsFilteredTable(table, a) ==
    /\ DOMAIN table = IF a.paper # None THEN {a.paper[1]} ELSE DOMAIN a_series_mm
    /\ \A ps \in DOMAIN table :
          DOMAIN table[ps] =
              IF a.scale # None THEN {ScaleKey(a.scale[1])}
              ELSE {ScaleKey(standard_scales[i]) : i \in 1..Len(standard_scales)}

\* C8 as stated: the run exits with failure and never calls print_results
\* when validation fails or a requested filter matches nothing (a requested
\* scale that is no standard denominator included); every other run calls
\* print_results on the filtered table.
C8_FailureExits ==
    pc = "exited" =>
        IF InvalidInput(args) \/ FilterMatchesNothing(args)
        THEN /\ exit_code = <<1>>
             /\ print_results_calls = <<>>
        ELSE /\ exit_code = <<0>>
             /\ Len(print_results_calls) = 1
             /\ IsFilteredTable(print_results_calls[1], args)

\* C9 as stated: when achieves_target_scale is false the larger coverage
\* percentage equals max_coverage, and both percentages of every entry are
\* at most max_coverage.
C9_BestEffortTight ==
    EntryStored =>
        /\ ~LastEntry.achieves_target_scale =>
              \/ /\ FLe(LastEntry.coverage_y_percent, LastEntry.coverage_x_percent)
                 /\ LastEntry.coverage_x_percent = max_coverage
              \/ /\ FLe(LastEntry.coverage_x_percent, LastEntry.coverage_y_percent)
                 /\ LastEntry.coverage_y_percent = max_coverage
        /\ FLe(LastEntry.coverage_x_percent, max_coverage)
        /\ FLe(LastEntry.coverage_y_percent, max_coverage)

====
